---- MODULE Spec2Model ----
(***************************************************************************)
(* A model of the Trustpilot review service: the CSV ingestion job         *)
(* (load_data.py: clean_data, upsert_records, load_csv_to_db) and the read *)
(* API (main.py: stream_rows_for_stmt and the three lookups).              *)
(***************************************************************************)
EXTENDS Integers, Sequences, FiniteSets, TLC

VARIABLES
    cleanIn,      \* clean_data: the DataFrame passed in (a sequence of rows)
    cleanOut,     \* clean_data: the DataFrame returned
    cleanPc,      \* "input" before the call, "returned" after it
    store,        \* tp_reviews: the committed rows (a set of records)
    ingPc,        \* load_csv_to_db: "idle" (not running) or "upsert" (inside upsert_records)
    csv,          \* the CSV file the current / latest run read
    records,      \* load_csv_to_db: the cleaned records handed to upsert_records
    txn,          \* upsert_records: the rows as the open transaction sees them
    next,         \* upsert_records: 1-based index of the next batch's first record
    outcome,      \* latest run: "none", "running", "returned" or "raised"
    logged,       \* latest run: logging.error was called
    committed,    \* latest run: its transaction committed
    failedBatch,  \* latest run: number of the batch whose write failed, 0 if none
    batchesRun,   \* latest run: batches whose conn.execute succeeded
    storeBefore,  \* history: the committed rows when the latest run started
    commitsOnCsv, \* history: committed runs in a row on the same file (capped at 2)
    req,          \* the API request being served: [kind, id]
    status,       \* its HTTP status, 0 while there is none
    body,         \* its JSON body (account lookup and errors)
    faulted,      \* history: the handler's query raised a data-layer error
    handlerSession, \* the session the handler itself opens: "none", "open", "closed"
    gen,          \* the generator of stream_rows_for_stmt: "none", "created",
                  \* "atHeader", "atRow" (suspended at a yield), "exhausted",
                  \* "failed", "closed"
    buffer,       \* its io.StringIO: the lines written and not yet truncated
    cursor,       \* its scalar_result: the rows not yet iterated
    chunks,       \* the chunks it has yielded, in order
    streamSession, \* the session it opens: "none", "open", "closed"
    streamCloses, \* how many times that session was closed
    queried       \* history: the committed rows at the request's latest query

cleanVars == <<cleanIn, cleanOut, cleanPc>>

ingestVars == <<store, ingPc, csv, records, txn, next, outcome, logged, committed,
                failedBatch, batchesRun, storeBefore, commitsOnCsv>>

apiVars == <<req, status, body, faulted, handlerSession, gen, buffer, cursor, chunks,
             streamSession, streamCloses, queried>>

vars == <<cleanIn, cleanOut, cleanPc, store, ingPc, csv, records, txn, next, outcome,
          logged, committed, failedBatch, batchesRun, storeBefore, commitsOnCsv,
          req, status, body, faulted, handlerSession, gen, buffer, cursor, chunks,
          streamSession, streamCloses, queried>>

(***************************************************************************)
(* Bounds                                                                  *)
(***************************************************************************)
\* longest DataFrame handed to clean_data on its own
MaxCleanRows == 3
\* most rows of a CSV file given to the ingestion job
MaxCsvRows == 2
\* upsert_records' batch_size (500 by default), scaled down so that a file has
\* several batches
BatchSize == 1
\* most rows of a CSV file ingested while the API is serving
MaxApiCsvRows == 1

(***************************************************************************)
(* Values                                                                  *)
(***************************************************************************)
\* Python's None / SQL NULL in a text column
None == "<None>"

\* pandas' NaT, what to_datetime(errors="coerce") gives for an unparseable date
NaT == [y |-> 0, m |-> 0, d |-> 0]

\* pd.to_datetime(value, errors="coerce") on one cell
ToDatetime(s) ==
    CASE s = "2023-01-01" -> [y |-> 2023, m |-> 1, d |-> 1]
      [] s = "2023-01-02" -> [y |-> 2023, m |-> 1, d |-> 2]
      [] s = "2023-01-03" -> [y |-> 2023, m |-> 1, d |-> 3]
      [] OTHER -> NaT

\* A rating cell keeps its Python type: int, float or str.
IntRating(n) == [kind |-> "int", num |-> n]
FloatRating(n) == [kind |-> "float", num |-> n]
StrRating == [kind |-> "str", num |-> 0]

\* lambda x: isinstance(x, (int, float)) and 1 <= x <= 5
RatingOk(x) == x.kind \in {"int", "float"} /\ 1 <= x.num /\ x.num <= 5

\* The two reviewers of the test seed (tests/test_main.py), one row of raw CSV
\* per (Review_Id, Review_Date, Review_Rating, reviewer).
Reviewers == {"456", "789"}

RawRow(id, date, rating, reviewer) ==
    [Review_Id |-> id,
     Reviewer_Name |-> IF reviewer = "456" THEN "Test User" ELSE "Another User",
     Review_Title |-> IF reviewer = "456" THEN "Great!" ELSE "Good",
     Review_Rating |-> rating,
     Review_Content |-> None,
     Review_IP_Address |-> None,
     Business_Id |-> IF reviewer = "456" THEN "biz1" ELSE "biz2",
     Business_Name |-> None,
     Reviewer_Id |-> reviewer,
     Email_Address |-> IF reviewer = "456" THEN "test@example.com" ELSE None,
     Reviewer_Country |-> IF reviewer = "456" THEN "DK" ELSE None,
     Review_Date |-> date]

\* all sequences over S of length at most n
SeqsUpTo(S, n) == UNION {[1..k -> S] : k \in 0..n}

(***************************************************************************)
(* clean_data                                                              *)
(***************************************************************************)
\* df.drop_duplicates(subset=["Review_Id"], keep="last"): a plausible slip
DropDuplicatesKeepLast(df) ==
    LET keep(i) == \A j \in (i+1)..Len(df) : df[j].Review_Id # df[i].Review_Id
        F[i \in 0..Len(df)] ==
            IF i = 0 THEN <<>>
            ELSE IF keep(i) THEN Append(F[i-1], df[i]) ELSE F[i-1]
    IN F[Len(df)]

\* df.drop_duplicates(subset=["Review_Id"], keep="first")
DropDuplicates(df) ==
    LET keep(i) == \A j \in 1..(i-1) : df[j].Review_Id # df[i].Review_Id
        F[i \in 0..Len(df)] ==
            IF i = 0 THEN <<>>
            ELSE IF keep(i) THEN Append(F[i-1], df[i]) ELSE F[i-1]
    IN F[Len(df)]

\* df["Review_Date"] = pd.to_datetime(df["Review_Date"], errors="coerce")
ParseDates(df) ==
    [i \in 1..Len(df) |-> [df[i] EXCEPT !.Review_Date = ToDatetime(@)]]

\* df.dropna(subset=["Review_Date"])
DropNaDates(df) == SelectSeq(df, LAMBDA r : r.Review_Date # NaT)

\* df[df["Review_Rating"].apply(lambda x: ...)]
FilterRatings(df) == SelectSeq(df, LAMBDA r : RatingOk(r.Review_Rating))

\* the date and rating filters run before the deduplication: a plausible slip
CleanDataDedupLast(df) == DropDuplicates(FilterRatings(DropNaDates(ParseDates(df))))

clean_data(df) == FilterRatings(DropNaDates(ParseDates(DropDuplicates(df))))

(***************************************************************************)
(* upsert_records                                                          *)
(***************************************************************************)
\* cols: every column of tp_reviews but the primary key (models.py)
NonKeyCols ==
    {"Reviewer_Name", "Review_Title", "Review_Rating", "Review_Content",
     "Review_IP_Address", "Business_Id", "Business_Name", "Reviewer_Id",
     "Email_Address", "Reviewer_Country", "Review_Date"}

\* an update map that crosses two columns: a plausible slip
UpdateMapCrossed(row, c) ==
    CASE c = "Reviewer_Name" -> row["Review_Title"]
      [] c = "Review_Title" -> row["Reviewer_Name"]
      [] OTHER -> row[c]

\* update_map = {c: getattr(ins.excluded, c) for c in cols}
UpdateMap(row, c) == row[c]

\* ON CONFLICT DO NOTHING: a plausible slip
OnConflictDoNothing(tx, row) ==
    IF \E r \in tx : r.Review_Id = row.Review_Id THEN tx ELSE tx \cup {row}

\* INSERT ... ON CONFLICT (Review_Id) DO UPDATE SET <update_map>, for one row
OnConflictDoUpdate(tx, row) ==
    IF \E r \in tx : r.Review_Id = row.Review_Id
    THEN {IF r.Review_Id = row.Review_Id
          THEN [c \in DOMAIN r |-> IF c \in NonKeyCols THEN UpdateMap(row, c) ELSE r[c]]
          ELSE r : r \in tx}
    ELSE tx \cup {row}

\* conn.execute(stmt, batch): the rows of the batch, in order
ExecuteBatch(tx, batch) ==
    LET F[i \in 0..Len(batch)] ==
            IF i = 0 THEN tx ELSE OnConflictDoUpdate(F[i-1], batch[i])
    IN F[Len(batch)]

\* records[i : i + batch_size], with next the 1-based i
BatchAt(recs, first) ==
    SubSeq(recs, first, IF first + BatchSize - 1 < Len(recs)
                        THEN first + BatchSize - 1 ELSE Len(recs))

\* i // batch_size + 1
BatchNumber(first) == (first - 1) \div BatchSize + 1

\* a connection that commits each statement as it runs: a plausible slip
AutocommitRows(committedRows, txRows) == txRows

\* What other sessions see while the engine.begin() block is open: the block
\* commits on exit only, so still the rows committed before it.
VisibleRows(committedRows, txRows) == committedRows

(***************************************************************************)
(* load_csv_to_db                                                          *)
(***************************************************************************)
IngestIds == {"1", "2"}

\* rows a CSV file may hold: either reviewer's review under either id, and a
\* row per id whose date does not parse
IngestRows ==
    {RawRow(id, "2023-01-01", IF who = "456" THEN IntRating(5) ELSE IntRating(4), who) :
        id \in IngestIds, who \in Reviewers}
    \cup {RawRow(id, "invalid_date", IntRating(5), "456") : id \in IngestIds}

\* A file is unreadable (pd.read_csv raises), readable without the Review Id
\* column ("nocolumn"), or readable with every column ("ok").
Unreadable == [kind |-> "unreadable", rows |-> <<>>]
NoColumn == [kind |-> "nocolumn", rows |-> <<>>]

CsvFiles ==
    {[kind |-> "ok", rows |-> rs] : rs \in SeqsUpTo(IngestRows, MaxCsvRows)}
        \cup {Unreadable, NoColumn}

\* the database after Base.metadata.create_all, and no job started
InitIngest ==
    /\ store = {}
    /\ ingPc = "idle"
    /\ csv = Unreadable
    /\ records = <<>>
    /\ txn = {}
    /\ next = 1
    /\ outcome = "none"
    /\ logged = FALSE
    /\ committed = FALSE
    /\ failedBatch = 0
    /\ batchesRun = 0
    /\ storeBefore = {}
    /\ commitsOnCsv = 0

\* load_csv_to_db up to the entry of upsert_records' engine.begin() block
LoadCsv(file) ==
    /\ ingPc = "idle"
    /\ csv' = file
    /\ commitsOnCsv' = IF file = csv THEN commitsOnCsv ELSE 0
    /\ storeBefore' = store
    /\ committed' = FALSE
    /\ failedBatch' = 0
    /\ batchesRun' = 0
    /\ next' = 1
    /\ CASE file.kind = "unreadable" ->
              \* pd.read_csv raises inside the try: logged, return
              /\ records' = <<>>
              /\ txn' = {}
              /\ logged' = TRUE
              /\ outcome' = "returned"
              /\ ingPc' = "idle"
         [] file.kind = "nocolumn" ->
              \* clean_data raises KeyError outside the try
              /\ records' = <<>>
              /\ txn' = {}
              /\ logged' = FALSE
              /\ outcome' = "raised"
              /\ ingPc' = "idle"
         [] OTHER ->
              /\ records' = clean_data(file.rows)
              /\ txn' = store
              /\ logged' = FALSE
              /\ outcome' = "running"
              /\ ingPc' = "upsert"
    /\ UNCHANGED store
    /\ UNCHANGED <<cleanVars, apiVars>>

\* one turn of the batch loop whose conn.execute succeeds
UpsertBatch ==
    /\ ingPc = "upsert"
    /\ next <= Len(records)
    /\ txn' = ExecuteBatch(txn, BatchAt(records, next))
    /\ store' = VisibleRows(store, txn')
    /\ next' = next + BatchSize
    /\ batchesRun' = batchesRun + 1
    /\ UNCHANGED <<ingPc, csv, records, outcome, logged, committed, failedBatch,
                   storeBefore, commitsOnCsv>>
    /\ UNCHANGED <<cleanVars, apiVars>>

\* a loop that catches the write error and tries the batch again: a plausible slip
RetryBatch == "upsert"

\* Where the job stands after conn.execute raises: upsert_records catches
\* nothing, so the exception leaves the loop, the engine.begin() block and the
\* function.
LeaveOnWriteFault == "idle"

\* an except clause that logs and does not raise: a plausible slip
LogAndSwallow == "returned"

\* load_csv_to_db's "except Exception": logging.error, then raise
LogAndReRaise == "raised"

\* one turn of the batch loop whose conn.execute raises: engine.begin() rolls
\* back, load_csv_to_db logs the error and re-raises it
UpsertBatchFails ==
    /\ ingPc = "upsert"
    /\ next <= Len(records)
    /\ failedBatch' = BatchNumber(next)
    /\ txn' = {}
    /\ store' = VisibleRows(store, txn)
    /\ logged' = TRUE
    /\ outcome' = LogAndReRaise
    /\ ingPc' = LeaveOnWriteFault
    /\ UNCHANGED <<csv, records, next, committed, batchesRun, storeBefore, commitsOnCsv>>
    /\ UNCHANGED <<cleanVars, apiVars>>

\* the loop is over: engine.begin() commits, then load_csv_to_db counts the rows
\* (a query that may itself raise, which is logged and re-raised)
FinishUpsert ==
    /\ ingPc = "upsert"
    /\ next > Len(records)
    /\ store' = txn
    /\ txn' = {}
    /\ committed' = TRUE
    /\ commitsOnCsv' = IF commitsOnCsv < 2 THEN commitsOnCsv + 1 ELSE 2
    /\ \E countFails \in BOOLEAN :
          /\ logged' = countFails
          /\ outcome' = IF countFails THEN LogAndReRaise ELSE "returned"
    /\ ingPc' = "idle"
    /\ UNCHANGED <<csv, records, next, failedBatch, batchesRun, storeBefore>>
    /\ UNCHANGED <<cleanVars, apiVars>>

NextIngest ==
    \/ \E file \in CsvFiles : LoadCsv(file)
    \/ UpsertBatch
    \/ UpsertBatchFails
    \/ FinishUpsert

(***************************************************************************)
(* main.py: queries and CSV serialization                                  *)
(***************************************************************************)
CSV_COLUMNS ==
    << "Review_Id", "Reviewer_Name", "Review_Title", "Review_Rating",
       "Review_Content", "Review_IP_Address", "Business_Id", "Business_Name",
       "Reviewer_Id", "Email_Address", "Reviewer_Country", "Review_Date" >>

\* str() of a stored rating, as csv.writer writes it
RatingStr(x) ==
    CASE x.kind = "str" -> "invalid_rating"
      [] x.kind = "float" -> (CASE x.num = 1 -> "1.0" [] x.num = 2 -> "2.0"
                                [] x.num = 3 -> "3.0" [] x.num = 4 -> "4.0"
                                [] OTHER -> "5.0")
      [] OTHER -> (CASE x.num = 1 -> "1" [] x.num = 2 -> "2" [] x.num = 3 -> "3"
                     [] x.num = 4 -> "4" [] OTHER -> "5")

\* str() of a stored datetime
DateStr(d) ==
    CASE d = [y |-> 2023, m |-> 1, d |-> 1] -> "2023-01-01 00:00:00"
      [] d = [y |-> 2023, m |-> 1, d |-> 2] -> "2023-01-02 00:00:00"
      [] d = [y |-> 2023, m |-> 1, d |-> 3] -> "2023-01-03 00:00:00"
      [] OTHER -> "NaT"

\* one cell as csv.writer writes it: None becomes the empty string
Cell(r, col) ==
    CASE col = "Review_Rating" -> RatingStr(r[col])
      [] col = "Review_Date" -> DateStr(r[col])
      [] OTHER -> IF r[col] = None THEN "" ELSE r[col]

\* row = [getattr(r, col, "") for col in CSV_COLUMNS]
RowLine(r) == [k \in 1..Len(CSV_COLUMNS) |-> Cell(r, CSV_COLUMNS[k])]

\* writer.writerow(line): one more line in the StringIO
WriteRow(buf, line) == Append(buf, line)

\* a buffer that is never emptied: a plausible slip
KeepBuffer(buf) == buf

\* buffer.seek(0); buffer.truncate(0)
Truncate(buf) == <<>>

\* select(TPReview).where(TPReview.<col> == val), against the committed rows
Select(rows, col, val) == {r \in rows : r[col] = val}

\* A SELECT without ORDER BY returns the matching rows in an order of the
\* database's choosing.
Orderings(S) ==
    {q \in [1..Cardinality(S) -> S] : \A i, j \in 1..Cardinality(S) : q[i] = q[j] => i = j}

\* the column and value a request's statement filters on
StmtCol(r) == IF r.kind = "business" THEN "Business_Id" ELSE "Reviewer_Id"

\* a session closed only when the try block ends normally: a plausible slip
CloseOnSuccessOnly(path) == IF path = "return" THEN "closed" ELSE "open"

\* the finally of stream_rows_for_stmt and of user_reviews_csv, and the exit of
\* user_account_info's with block: session.close() on every way out; path is
\* "return", "raise" or "close" (GeneratorExit)
SessionAfterExit(path) == "closed"

\* an existence check that never finds the result empty: a plausible slip
AlwaysSomeReviews(res) == FALSE

\* user_reviews_csv: "not exists", with exists the .first() of the result
NoReviews(res) == res = <<>>

NoBody ==
    [detail |-> None, Reviewer_Id |-> None, Reviewer_Name |-> None,
     Email_Address |-> None, Reviewer_Country |-> None]

ErrorBody(detail) == [NoBody EXCEPT !.detail = detail]

\* a data-layer fault, with the detail SQLAlchemy reports
DbFault == [type |-> "SQLAlchemyError", status |-> 0, detail |-> "OperationalError: database is locked"]

HttpException(code, detail) == [type |-> "HTTPException", status |-> code, detail |-> detail]

\* except Exception: a plausible slip
ExceptEverything(exc) == HttpException(500, "Internal server error")

\* user_account_info's "except SQLAlchemyError": what leaves the handler when
\* exc is raised inside the try
ExceptSQLAlchemyError(exc) ==
    IF exc.type = "SQLAlchemyError"
    THEN HttpException(500, "Internal server error")
    ELSE exc

\* the server's answer to an exception that leaves a handler
ResponseStatus(exc) == IF exc.type = "HTTPException" THEN exc.status ELSE 500

BusinessIds == {"biz1", "biz2"}

InitApi ==
    /\ req = [kind |-> "none", id |-> None]
    /\ status = 0
    /\ body = NoBody
    /\ faulted = FALSE
    /\ handlerSession = "none"
    /\ gen = "none"
    /\ buffer = <<>>
    /\ cursor = <<>>
    /\ chunks = <<>>
    /\ streamSession = "none"
    /\ streamCloses = 0
    /\ queried = {}

\* one request at a time: the next is served once the last one's stream is over
ApiFree == gen \notin {"created", "atHeader", "atRow"}

\* a request starts with nothing of the last one left
FreshStream ==
    /\ buffer' = <<>>
    /\ cursor' = <<>>
    /\ chunks' = <<>>
    /\ streamSession' = "none"
    /\ streamCloses' = 0

\* GET /business/{business_id}/reviews
BusinessReviewsCsv(b) ==
    /\ ApiFree
    /\ req' = [kind |-> "business", id |-> b]
    /\ status' = 200
    /\ body' = NoBody
    /\ faulted' = FALSE
    /\ handlerSession' = "none"
    /\ gen' = "created"
    /\ queried' = {}
    /\ FreshStream
    /\ UNCHANGED <<cleanVars, ingestVars>>

\* GET /user/{reviewer_id}/reviews
UserReviewsCsv(u) ==
    /\ ApiFree
    /\ req' = [kind |-> "user", id |-> u]
    /\ queried' = store
    /\ FreshStream
    /\ \/ \* session.execute raises: the exception leaves the handler
          /\ faulted' = TRUE
          /\ status' = ResponseStatus(DbFault)
          /\ body' = ErrorBody("Internal Server Error")
          /\ gen' = "none"
          /\ handlerSession' = SessionAfterExit("raise")
       \/ \E res \in Orderings(Select(store, "Reviewer_Id", u)) :
            /\ faulted' = FALSE
            /\ IF NoReviews(res)
               THEN /\ status' = ResponseStatus(HttpException(404, "No reviews found for the given reviewer_id"))
                    /\ body' = ErrorBody("No reviews found for the given reviewer_id")
                    /\ gen' = "none"
                    /\ handlerSession' = SessionAfterExit("raise")
               ELSE /\ status' = 200
                    /\ body' = NoBody
                    /\ gen' = "created"
                    /\ handlerSession' = SessionAfterExit("return")
    /\ UNCHANGED <<cleanVars, ingestVars>>

\* GET /user/{reviewer_id}/account
UserAccountInfo(u) ==
    /\ ApiFree
    /\ req' = [kind |-> "account", id |-> u]
    /\ queried' = store
    /\ FreshStream
    /\ gen' = "none"
    /\ \/ \* session.execute raises SQLAlchemyError
          LET exc == ExceptSQLAlchemyError(DbFault) IN
          /\ faulted' = TRUE
          /\ status' = ResponseStatus(exc)
          /\ body' = ErrorBody(exc.detail)
          /\ handlerSession' = SessionAfterExit("raise")
       \/ \E res \in Orderings(Select(store, "Reviewer_Id", u)) :
            /\ faulted' = FALSE
            /\ IF res = <<>>
               THEN LET exc == ExceptSQLAlchemyError(HttpException(404, "Reviewer not found")) IN
                    /\ status' = ResponseStatus(exc)
                    /\ body' = ErrorBody(exc.detail)
                    /\ handlerSession' = SessionAfterExit("raise")
               ELSE /\ status' = 200
                    /\ body' = [detail |-> None,
                                Reviewer_Id |-> res[1].Reviewer_Id,
                                Reviewer_Name |-> res[1].Reviewer_Name,
                                Email_Address |-> res[1].Email_Address,
                                Reviewer_Country |-> res[1].Reviewer_Country]
                    /\ handlerSession' = SessionAfterExit("return")
    /\ UNCHANGED <<cleanVars, ingestVars>>

(***************************************************************************)
(* stream_rows_for_stmt, one action per resumption of the generator        *)
(***************************************************************************)
\* first next(): the header is written and yielded
StreamHeader ==
    /\ gen = "created"
    /\ buffer' = WriteRow(buffer, CSV_COLUMNS)
    /\ chunks' = Append(chunks, buffer')
    /\ gen' = "atHeader"
    /\ UNCHANGED <<req, status, body, faulted, handlerSession, cursor, streamSession,
                   streamCloses, queried>>
    /\ UNCHANGED <<cleanVars, ingestVars>>

\* second next(): the buffer is emptied, the session opened and the query run;
\* the first row is yielded, or the loop ends at once and the finally runs
StreamExecute ==
    /\ gen = "atHeader"
    /\ queried' = store
    /\ \E res \in Orderings(Select(store, StmtCol(req), req.id)) :
          IF res = <<>>
          THEN /\ buffer' = Truncate(buffer)
               /\ cursor' = <<>>
               /\ chunks' = chunks
               /\ gen' = "exhausted"
               /\ streamSession' = SessionAfterExit("return")
               /\ streamCloses' = IF streamSession' = "closed" THEN streamCloses + 1 ELSE streamCloses
          ELSE /\ buffer' = WriteRow(Truncate(buffer), RowLine(res[1]))
               /\ cursor' = Tail(res)
               /\ chunks' = Append(chunks, buffer')
               /\ gen' = "atRow"
               /\ streamSession' = "open"
               /\ streamCloses' = streamCloses
    /\ UNCHANGED <<req, status, body, faulted, handlerSession>>
    /\ UNCHANGED <<cleanVars, ingestVars>>

\* second next(), session.execute raises: logged, re-raised, the finally runs
StreamExecuteFails ==
    /\ gen = "atHeader"
    /\ queried' = store
    /\ buffer' = Truncate(buffer)
    /\ gen' = "failed"
    /\ streamSession' = SessionAfterExit("raise")
    /\ streamCloses' = IF streamSession' = "closed" THEN streamCloses + 1 ELSE streamCloses
    /\ UNCHANGED <<req, status, body, faulted, handlerSession, cursor, chunks>>
    /\ UNCHANGED <<cleanVars, ingestVars>>

\* a later next(): the buffer is emptied and the next row yielded, or the loop
\* ends and the finally runs
StreamNextRow ==
    /\ gen = "atRow"
    /\ IF cursor = <<>>
       THEN /\ buffer' = Truncate(buffer)
            /\ cursor' = <<>>
            /\ chunks' = chunks
            /\ gen' = "exhausted"
            /\ streamSession' = SessionAfterExit("return")
            /\ streamCloses' = IF streamSession' = "closed" THEN streamCloses + 1 ELSE streamCloses
       ELSE /\ buffer' = WriteRow(Truncate(buffer), RowLine(Head(cursor)))
            /\ cursor' = Tail(cursor)
            /\ chunks' = Append(chunks, buffer')
            /\ gen' = "atRow"
            /\ UNCHANGED <<streamSession, streamCloses>>
    /\ UNCHANGED <<req, status, body, faulted, handlerSession, queried>>
    /\ UNCHANGED <<cleanVars, ingestVars>>

\* a later next(), fetching the next row raises: logged, re-raised, the finally runs
StreamIterationFails ==
    /\ gen = "atRow"
    /\ buffer' = Truncate(buffer)
    /\ gen' = "failed"
    /\ streamSession' = SessionAfterExit("raise")
    /\ streamCloses' = IF streamSession' = "closed" THEN streamCloses + 1 ELSE streamCloses
    /\ UNCHANGED <<req, status, body, faulted, handlerSession, cursor, chunks, queried>>
    /\ UNCHANGED <<cleanVars, ingestVars>>

\* The consumer abandons the stream (client disconnect): the generator is closed.
\* Not yet started, its body never runs; suspended at the header's yield,
\* GeneratorExit is raised before the session exists; suspended at a row's
\* yield, GeneratorExit passes "except Exception" and the finally runs.
StreamClose ==
    /\ gen \in {"created", "atHeader", "atRow"}
    /\ gen' = "closed"
    /\ IF gen = "atRow"
       THEN /\ streamSession' = SessionAfterExit("close")
            /\ streamCloses' = IF streamSession' = "closed" THEN streamCloses + 1 ELSE streamCloses
       ELSE UNCHANGED <<streamSession, streamCloses>>
    /\ UNCHANGED <<req, status, body, faulted, handlerSession, buffer, cursor, chunks, queried>>
    /\ UNCHANGED <<cleanVars, ingestVars>>

\* files ingested while the API is serving: every date parses
ApiFiles ==
    {[kind |-> "ok", rows |-> rs] :
        rs \in SeqsUpTo({r \in IngestRows : r.Review_Date = "2023-01-01"}, MaxApiCsvRows)}

NextApi ==
    \/ \E b \in BusinessIds : BusinessReviewsCsv(b)
    \/ \E u \in Reviewers : UserReviewsCsv(u)
    \/ \E u \in Reviewers : UserAccountInfo(u)
    \/ StreamHeader
    \/ StreamExecute
    \/ StreamExecuteFails
    \/ StreamNextRow
    \/ StreamIterationFails
    \/ StreamClose

(***************************************************************************)
(* clean_data called on its own (tests/test_load_data.py)                  *)
(***************************************************************************)
CleanIds == {"1", "2"}
CleanDates == {"2023-01-01", "invalid_date"}
CleanRatings == {IntRating(5), IntRating(6), FloatRating(4), StrRating}

CleanRows ==
    {RawRow(id, date, rating, "456") :
        id \in CleanIds, date \in CleanDates, rating \in CleanRatings}

\* the sample_data fixture
sample_data ==
    << RawRow("1", "2023-01-01", IntRating(5), "456"),
       RawRow("2", "invalid_date", IntRating(6), "456"),
       RawRow("2", "2023-01-02", IntRating(4), "456"),
       RawRow("3", "2023-01-03", StrRating, "456") >>

InitClean ==
    /\ cleanIn \in SeqsUpTo(CleanRows, MaxCleanRows) \cup {sample_data}
    /\ cleanOut = <<>>
    /\ cleanPc = "input"
    /\ InitIngest
    /\ InitApi

CallCleanData ==
    /\ cleanPc = "input"
    /\ cleanOut' = clean_data(cleanIn)
    /\ cleanPc' = "returned"
    /\ UNCHANGED cleanIn
    /\ UNCHANGED <<ingestVars, apiVars>>

NextClean == CallCleanData

SpecClean == InitClean /\ [][NextClean]_vars

\* the ingestion job alone, run any number of times
InitJob ==
    /\ cleanIn = <<>>
    /\ cleanOut = <<>>
    /\ cleanPc = "returned"
    /\ InitIngest
    /\ InitApi

SpecIngest == InitJob /\ [][NextIngest]_vars

\* the API serving requests while the ingestion job runs beside it
Init == InitJob

Next ==
    \/ NextApi
    \/ \E file \in ApiFiles : LoadCsv(file)
    \/ UpsertBatch
    \/ UpsertBatchFails
    \/ FinishUpsert

Spec == Init /\ [][Next]_vars

(***************************************************************************)
(* Properties                                                              *)
(***************************************************************************)
\* row i of df passes the three filters: no earlier row has its Review_Id, its
\* date parses, its rating is a number in [1, 5]
Survives(df, i) ==
    /\ \A j \in 1..(i-1) : df[j].Review_Id # df[i].Review_Id
    /\ ToDatetime(df[i].Review_Date) # NaT
    /\ df[i].Review_Rating.kind \in {"int", "float"}
    /\ df[i].Review_Rating.num >= 1
    /\ df[i].Review_Rating.num <= 5

Survivors(df) == {i \in 1..Len(df) : Survives(df, i)}

\* row i of df as it leaves the cleaner: its date parsed
Cleaned(df, i) == [df[i] EXCEPT !.Review_Date = ToDatetime(df[i].Review_Date)]

\* out is the survivors of df, in df's order
IsSurvivorSubsequence(out, df) ==
    /\ Len(out) = Cardinality(Survivors(df))
    /\ \A i \in Survivors(df) :
          out[Cardinality({j \in Survivors(df) : j <= i})] = Cleaned(df, i)

\* the last surviving row of df with the Review_Id of row i
LastSurvivor(df, i) ==
    CHOOSE j \in Survivors(df) :
        /\ df[j].Review_Id = df[i].Review_Id
        /\ \A k \in Survivors(df) : df[k].Review_Id = df[i].Review_Id => k <= j

\* C1: after an ingestion run that completes without error, the store holds
\* exactly one entity per surviving Review_Id, equal in every field to the last
\* surviving input record with that id.
C1_StoreHoldsSurvivors ==
    (ingPc = "idle" /\ outcome = "returned" /\ csv.kind = "ok") =>
        \A i \in Survivors(csv.rows) :
            {r \in store : r.Review_Id = csv.rows[i].Review_Id}
                = {Cleaned(csv.rows, LastSurvivor(csv.rows, i))}

\* C1 witness: a completed run that inserted one id and overwrote another whose
\* stored fields differed from the input's.
C1_Witness ==
    /\ ingPc = "idle" /\ outcome = "returned" /\ csv.kind = "ok"
    /\ \E i \in Survivors(csv.rows) :
          \E r \in storeBefore :
              r.Review_Id = csv.rows[i].Review_Id /\ r # Cleaned(csv.rows, i)
    /\ \E i \in Survivors(csv.rows) :
          \A r \in storeBefore : r.Review_Id # csv.rows[i].Review_Id

\* C2: a second committed run on the same unchanged file leaves the store as
\* the first committed run left it.
C2_Idempotent ==
    (ingPc = "idle" /\ committed /\ commitsOnCsv >= 2) => store = storeBefore

\* C2 witness: two committed runs in a row on one file that has survivors.
C2_Witness ==
    /\ ingPc = "idle" /\ committed /\ outcome = "returned"
    /\ commitsOnCsv = 2
    /\ Len(records) >= 1
    /\ store # {}

\* the records of the batches before batch k
BatchesBefore(recs, k) ==
    SubSeq(recs, 1, IF (k - 1) * BatchSize < Len(recs)
                    THEN (k - 1) * BatchSize ELSE Len(recs))

\* C3 as claimed: when the write of batch k fails, batches 1..k-1 are applied
\* to the store and batch k and the later ones are not.
C3_EarlierBatchesDurable ==
    (ingPc = "idle" /\ failedBatch >= 1) =>
        store = ExecuteBatch(storeBefore, BatchesBefore(records, failedBatch))

\* C3 as amended: when the write of batch k fails, the one transaction around
\* all batches is rolled back, and the store is as it was before the call.
C3_FailedRunRollsBack ==
    (ingPc = "idle" /\ failedBatch >= 1) =>
        /\ store = storeBefore
        /\ ~committed
        /\ outcome = "raised"

\* C3 witness: a later batch failed after earlier batches that changed rows.
C3_Witness ==
    /\ ingPc = "idle"
    /\ failedBatch >= 2
    /\ batchesRun = failedBatch - 1
    /\ ExecuteBatch(storeBefore, BatchesBefore(records, failedBatch)) # storeBefore

Matched == Select(queried, StmtCol(req), req.id)

\* the chunk that holds the header line alone
HeaderChunk == <<CSV_COLUMNS>>

\* C5: the session a stream opens is open at every row chunk it yields and is
\* closed exactly once when the generator ends, by exhaustion, by an error or
\* by being closed by the consumer; none is open after the generator has ended.
C5_StreamSessionReleased ==
    /\ gen = "atRow" => streamSession = "open"
    /\ streamSession = "open" => gen = "atRow"
    /\ gen \in {"exhausted", "failed"} => streamSession = "closed"
    /\ gen = "closed" => streamSession \in {"none", "closed"}
    /\ (gen = "closed" /\ Len(chunks) >= 2) => streamSession = "closed"
    /\ streamSession = "closed" => streamCloses = 1
    /\ streamSession # "closed" => streamCloses = 0

\* C5 witness: the consumer abandoned the stream after a row chunk, rows still
\* to come, and the session was closed.
C5_Witness ==
    /\ gen = "closed"
    /\ Len(chunks) = 2
    /\ cursor # <<>>
    /\ streamSession = "closed"
    /\ streamCloses = 1

\* C6: the first chunk of a stream is the header, every later chunk is one row
\* of a record the statement matched, no record twice; a stream that ran to
\* its end has one row chunk per matched record; a business with no record
\* gets status 200 and the header alone.
C6_HeaderThenRows ==
    /\ gen \in {"atHeader", "atRow", "exhausted", "failed"} => chunks # <<>>
    /\ chunks # <<>> => chunks[1] = HeaderChunk
    /\ \A k \in 2..Len(chunks) :
          /\ chunks[k] # HeaderChunk
          /\ \E r \in Matched : chunks[k] = <<RowLine(r)>>
          /\ \A j \in 2..Len(chunks) : chunks[j] = chunks[k] => j = k
    /\ gen = "exhausted" => Len(chunks) = 1 + Cardinality(Matched)
    /\ (req.kind = "business" /\ gen = "exhausted" /\ Matched = {}) =>
          (status = 200 /\ chunks = <<HeaderChunk>>)

\* C6 witness: a business lookup that matched nothing, in a store that holds
\* another business's records, ran to its end.
C6_Witness ==
    /\ req.kind = "business"
    /\ gen = "exhausted"
    /\ queried # {}
    /\ Matched = {}
    /\ chunks = <<HeaderChunk>>

\* C7: a user-reviews lookup that finds no record of the reviewer answers 404
\* without creating the stream: no chunk, no streaming session, and the
\* session of the existence check closed.
C7_UserNotFound ==
    (req.kind = "user" /\ gen \in {"none", "created"}) =>
        /\ handlerSession = "closed"
        /\ (Matched = {} /\ ~faulted) => status = 404
        /\ status = 404 => (Matched = {} /\ ~faulted)
        /\ status # 200 =>
              (gen = "none" /\ chunks = <<>> /\ streamSession = "none" /\ streamCloses = 0)

\* C7 witness: a 404 for a reviewer without records while the store holds
\* another reviewer's.
C7_Witness ==
    /\ req.kind = "user"
    /\ status = 404
    /\ queried # {}
    /\ gen = "none"

\* C8 as claimed: a user-reviews lookup that answered 200 and whose stream ran
\* to its end delivered the header and at least one row.
C8_UserStreamHasRow ==
    (req.kind = "user" /\ status = 200 /\ gen = "exhausted") => Len(chunks) >= 2

\* C9: the account lookup answers 200 with the four public fields of a record
\* of the reviewer (the first the query returned), 404 when there is none, 500
\* with a fixed detail when the data layer faults, and nothing else; its
\* session is closed in every case.
C9_AccountOutcomes ==
    req.kind = "account" =>
        /\ handlerSession = "closed"
        /\ gen = "none"
        /\ status \in {200, 404, 500}
        /\ status = 500 <=> faulted
        /\ status = 404 <=> (~faulted /\ Matched = {})
        /\ status = 200 =>
              \E r \in Matched :
                  body = [detail |-> None,
                          Reviewer_Id |-> r.Reviewer_Id,
                          Reviewer_Name |-> r.Reviewer_Name,
                          Email_Address |-> r.Email_Address,
                          Reviewer_Country |-> r.Reviewer_Country]
        /\ status = 404 => body = ErrorBody("Reviewer not found")
        /\ status = 500 =>
              (body = ErrorBody("Internal server error") /\ body.detail # DbFault.detail)
        /\ (status = 200 /\ req.id = "456") => body.Reviewer_Name = "Test User"

\* C9 witness: an account lookup for a reviewer without records, in a store
\* that holds another reviewer's, answered 404.
C9_Witness ==
    /\ req.kind = "account"
    /\ status = 404
    /\ ~faulted
    /\ queried # {}

\* C10 as claimed: a run on a malformed or unreadable file logs an error,
\* lets no exception out, attempts no upsert and leaves the store as it was.
C10_InputFaultLoggedNotRaised ==
    (ingPc = "idle" /\ outcome # "none" /\ csv.kind # "ok") =>
        /\ logged
        /\ outcome = "returned"
        /\ batchesRun = 0
        /\ store = storeBefore

\* C11: when the write of batch k fails the job stops there: batches 1..k-1
\* ran once each, batch k is not run again and no later batch runs (the loop
\* index stays at batch k, no transaction is left open), the error is logged
\* and leaves load_csv_to_db as an exception.
C11_FailFastOnWriteFault ==
    failedBatch >= 1 =>
        /\ ingPc = "idle"
        /\ outcome = "raised"
        /\ logged
        /\ batchesRun = failedBatch - 1
        /\ BatchNumber(next) = failedBatch
        /\ txn = {}
        /\ ~committed

\* C11 witness: a batch failed while later batches were still to run.
C11_Witness ==
    /\ failedBatch >= 1
    /\ outcome = "raised"
    /\ next + BatchSize <= Len(records)

====
